---------------------------- MODULE Spec2Model ----------------------------
(***************************************************************************)
(* A model of the HTTP server of 5-http-implementation/http/server.go.     *)
(*                                                                         *)
(* Byte strings are TLA+ strings; a byte is a string of length one.  The   *)
(* request parser, the connection decision and the response serializer    *)
(* are operators computed over those strings the way the Go code computes  *)
(* them.  A connection loop (httpConn.serve) is a small state machine per  *)
(* connection; the listener loop (Server.Serve) accepts connections.       *)
(***************************************************************************)
EXTENDS Integers, Sequences, FiniteSets, TLC

(***************************************************************************)
(* Bounds of the model.                                                    *)
(***************************************************************************)
MaxConns == 2          \* connections the listener accepts
MaxSends == 2          \* chunks a peer sends on one connection

Conns == 1..MaxConns

(***************************************************************************)
(* Byte-string helpers (package strings, strconv).                         *)
(***************************************************************************)
CRLF == "\r\n"

At(s, i) == SubSeq(s, i, i)

Drop(s, n) == SubSeq(s, n + 1, Len(s))

Take(s, n) == SubSeq(s, 1, n)

Min(a, b) == IF a < b THEN a ELSE b

Max(a, b) == IF a < b THEN b ELSE a

\* strings.Index for a one-byte separator: the first position of ch in s, 0 if none.
RECURSIVE IndexFrom(_, _, _)
IndexFrom(s, ch, i) ==
    IF i > Len(s) THEN 0
    ELSE IF At(s, i) = ch THEN i
    ELSE IndexFrom(s, ch, i + 1)

Index(s, ch) == IndexFrom(s, ch, 1)

HasPrefix(s, p) == Len(s) >= Len(p) /\ Take(s, Len(p)) = p

HasSuffix(s, p) == Len(s) >= Len(p) /\ Drop(s, Len(s) - Len(p)) = p

\* strings.Contains
Contains(s, sub) == \E i \in 0..(Len(s) - Len(sub)) : SubSeq(s, i + 1, i + Len(sub)) = sub

\* The number of (possibly overlapping) occurrences of sub in s.
Count(s, sub) == Cardinality({i \in 0..(Len(s) - Len(sub)) : SubSeq(s, i + 1, i + Len(sub)) = sub})

\* strings.TrimSuffix
TrimSuffix(s, suf) == IF HasSuffix(s, suf) THEN Take(s, Len(s) - Len(suf)) ELSE s

\* strings.Split(s, sep) for a one-byte separator: one more field than separators.
RECURSIVE Split(_, _)
Split(s, sep) ==
    LET i == Index(s, sep)
    IN  IF i = 0 THEN <<s>>
        ELSE <<Take(s, i - 1)>> \o Split(Drop(s, i), sep)

\* strings.SplitN(s, sep, 2): split at the first separator only.
SplitN2(s, sep) ==
    LET i == Index(s, sep)
    IN  IF i = 0 THEN <<s>> ELSE <<Take(s, i - 1), Drop(s, i)>>

Upper == "ABCDEFGHIJKLMNOPQRSTUVWXYZ"
Lower == "abcdefghijklmnopqrstuvwxyz"

\* strings.ToLower on ASCII text.
RECURSIVE ToLower(_)
ToLower(s) ==
    IF s = "" THEN ""
    ELSE LET i == Index(Upper, At(s, 1))
         IN  (IF i = 0 THEN At(s, 1) ELSE At(Lower, i)) \o ToLower(Drop(s, 1))

IsSpace(ch) == ch \in {" ", "\t", "\n", "\r", "\f"}

RECURSIVE TrimLeft(_)
TrimLeft(s) == IF s # "" /\ IsSpace(At(s, 1)) THEN TrimLeft(Drop(s, 1)) ELSE s

RECURSIVE TrimRight(_)
TrimRight(s) ==
    IF s # "" /\ IsSpace(At(s, Len(s))) THEN TrimRight(Take(s, Len(s) - 1)) ELSE s

\* strings.TrimSpace
TrimSpace(s) == TrimRight(TrimLeft(s))

Digits == "0123456789"

\* The value of a string of decimal digits, -1 if some byte is no digit.
\* (The digit strings of this model are a few bytes long, far inside the
\* int64 range, so ParseInt's range error does not arise.)
RECURSIVE DigitsValue(_, _)
DigitsValue(s, acc) ==
    IF s = "" THEN acc
    ELSE LET d == Index(Digits, At(s, 1))
         IN  IF d = 0 THEN -1
             ELSE DigitsValue(Drop(s, 1), acc * 10 + (d - 1))

\* strconv.ParseInt(s, 10, 64): an optional sign, then at least one digit.
ParseInt(s) ==
    LET neg  == s # "" /\ At(s, 1) = "-"
        body == IF s # "" /\ At(s, 1) \in {"+", "-"} THEN Drop(s, 1) ELSE s
        v    == IF body = "" THEN -1 ELSE DigitsValue(body, 0)
    IN  IF v < 0 THEN [ok |-> FALSE, val |-> 0]
        ELSE [ok |-> TRUE, val |-> IF neg THEN 0 - v ELSE v]

\* strconv.Itoa
RECURSIVE Itoa(_)
Itoa(n) ==
    IF n < 0 THEN "-" \o Itoa(0 - n)
    ELSE IF n < 10 THEN At(Digits, n + 1)
    ELSE Itoa(n \div 10) \o At(Digits, (n % 10) + 1)

\* A Go map[string]string: a function on a finite set of strings; a missing
\* key reads as the empty string.
EmptyMap == [k \in {} |-> ""]

Get(m, k) == IF k \in DOMAIN m THEN m[k] ELSE ""

\* A map assignment that keeps the value of a key already present.
PutIfAbsent(m, k, v) == [x \in (DOMAIN m) \cup {k} |-> IF x \in DOMAIN m THEN m[x] ELSE v]

Put(m, k, v) == [x \in (DOMAIN m) \cup {k} |-> IF x = k THEN v ELSE m[x]]

Delete(m, k) == [x \in (DOMAIN m) \ {k} |-> m[x]]

(***************************************************************************)
(* Protocol constants and the status-title table.                          *)
(***************************************************************************)
http10 == "HTTP/1.0"

http11 == "HTTP/1.1"

statusTitles ==
    [s \in {200, 201, 202, 203, 204} |->
        CASE s = 200 -> "OK"
          [] s = 201 -> "Created"
          [] s = 202 -> "Accepted"
          [] s = 203 -> "Non-Authoritative Information"
          [] s = 204 -> "No Content"]

\* A reply without the Connection header.
badNoClose == "HTTP/1.1 400 Bad Request\r\n\r\n"

\* The fixed reply of the bad-request path.
bad == "HTTP/1.1 400 Bad Request\r\nConnection: close\r\n\r\n"

(***************************************************************************)
(* Request parsing: readHTTPLine, parseRequestLine, parseHeaderLine,       *)
(* readRequest.  The input is the unread part of the connection's byte     *)
(* stream (socket and bufio.Reader together) and whether the peer has      *)
(* closed its side.  A read that finds no delimiter blocks while the peer  *)
(* is still connected and fails with EOF once it has closed.               *)
(***************************************************************************)
\* bufio.Reader.ReadString('\n')
\* A ReadString that waits for its delimiter even when the stream has ended.
ReadStringWaitsAtEOF(in, closed) ==
    LET i == Index(in, "\n")
    IN  IF i > 0 THEN [st |-> "ok", ln |-> Take(in, i), rest |-> Drop(in, i)]
        ELSE [st |-> "block", ln |-> "", rest |-> in]

ReadString(in, closed) ==
    LET i == Index(in, "\n")
    IN  IF i > 0 THEN [st |-> "ok", ln |-> Take(in, i), rest |-> Drop(in, i)]
        ELSE IF closed THEN [st |-> "err", ln |-> in, rest |-> ""]
        ELSE [st |-> "block", ln |-> "", rest |-> in]

readHTTPLine(in, closed) ==
    LET r == ReadString(in, closed)
    IN  IF r.st = "ok" THEN [r EXCEPT !.ln = TrimSuffix(r.ln, CRLF)]
        ELSE [r EXCEPT !.ln = ""]

\* A request line parser that takes the first three of three or more fields.
parseRequestLineAtLeast3(ln) ==
    LET s == Split(ln, " ")
    IN  IF Len(s) < 3 THEN [method |-> "", uri |-> "", proto |-> "", ok |-> FALSE]
        ELSE [method |-> s[1], uri |-> s[2], proto |-> s[3], ok |-> TRUE]

parseRequestLine(ln) ==
    LET s == Split(ln, " ")
    IN  IF Len(s) # 3 THEN [method |-> "", uri |-> "", proto |-> "", ok |-> FALSE]
        ELSE [method |-> s[1], uri |-> s[2], proto |-> s[3], ok |-> TRUE]

\* A header line parser that splits at every colon.
parseHeaderLineSplitAll(ln) ==
    LET s == Split(ln, ":")
    IN  IF Len(s) # 2 THEN [key |-> "", val |-> "", ok |-> FALSE]
        ELSE [key |-> ToLower(s[1]), val |-> TrimSpace(s[2]), ok |-> TRUE]

parseHeaderLine(ln) ==
    LET s == SplitN2(ln, ":")
    IN  IF Len(s) # 2 THEN [key |-> "", val |-> "", ok |-> FALSE]
        ELSE [key |-> ToLower(s[1]), val |-> TrimSpace(s[2]), ok |-> TRUE]

\* The zero Request; Body is the io.LimitedReader over the connection's
\* reader, of which N is the number of bytes it may still deliver.
NoRequest ==
    [Method |-> "", URI |-> "", Proto |-> "", Headers |-> EmptyMap, Body |-> [N |-> 0]]

\* The header loop of readRequest.
RECURSIVE readHeaders(_, _, _)
readHeaders(in, closed, hdrs) ==
    LET l == readHTTPLine(in, closed)
    IN  IF l.st # "ok" THEN [st |-> l.st, hdrs |-> hdrs, rest |-> l.rest]
        ELSE IF Len(l.ln) = 0 THEN [st |-> "ok", hdrs |-> hdrs, rest |-> l.rest]
        ELSE LET h == parseHeaderLine(l.ln)
             IN  readHeaders(l.rest, closed, IF h.ok THEN Put(hdrs, h.key, h.val) ELSE hdrs)

\* readRequest: st is "ok", "err" or "block" (still waiting for bytes); req
\* is the function's local Request as far as it was filled in; rest is the
\* part of the stream left unread.
\* A readRequest that takes an unparseable Content-Length for 0.
readRequestDefaultsLength(in, closed) ==
    LET l0 == readHTTPLine(in, closed)
        rl == parseRequestLine(l0.ln)
        r0 == IF l0.st = "ok"
              THEN [NoRequest EXCEPT !.Method = rl.method, !.URI = rl.uri, !.Proto = rl.proto]
              ELSE NoRequest
        hs == readHeaders(l0.rest, closed, EmptyMap)
        r1 == [r0 EXCEPT !.Headers = hs.hdrs]
        cl == ParseInt(Get(hs.hdrs, "content-length"))
    IN  IF l0.st = "block" THEN [st |-> "block", req |-> NoRequest, rest |-> in]
        ELSE IF l0.st = "ok" /\ ~rl.ok THEN [st |-> "err", req |-> r0, rest |-> l0.rest]
        ELSE IF hs.st = "block" THEN [st |-> "block", req |-> NoRequest, rest |-> in]
        ELSE IF hs.st = "err" THEN [st |-> "err", req |-> r1, rest |-> hs.rest]
        ELSE [st   |-> "ok",
              req  |-> [r1 EXCEPT !.Body = [N |-> IF cl.ok THEN cl.val ELSE 0]],
              rest |-> hs.rest]

readRequest(in, closed) ==
    LET l0 == readHTTPLine(in, closed)
        rl == parseRequestLine(l0.ln)
        r0 == IF l0.st = "ok"
              THEN [NoRequest EXCEPT !.Method = rl.method, !.URI = rl.uri, !.Proto = rl.proto]
              ELSE NoRequest
        hs == readHeaders(l0.rest, closed, EmptyMap)
        r1 == [r0 EXCEPT !.Headers = hs.hdrs]
        cl == ParseInt(Get(hs.hdrs, "content-length"))
    IN  IF l0.st = "block" THEN [st |-> "block", req |-> NoRequest, rest |-> in]
        ELSE IF l0.st = "ok" /\ ~rl.ok THEN [st |-> "err", req |-> r0, rest |-> l0.rest]
        ELSE IF hs.st = "block" THEN [st |-> "block", req |-> NoRequest, rest |-> in]
        ELSE IF hs.st = "err" THEN [st |-> "err", req |-> r1, rest |-> hs.rest]
        ELSE IF "content-length" \in DOMAIN hs.hdrs /\ ~cl.ok
             THEN [st |-> "err", req |-> r1, rest |-> hs.rest]
        ELSE [st   |-> "ok",
              req  |-> [r1 EXCEPT !.Body = [N |-> IF "content-length" \in DOMAIN hs.hdrs
                                                  THEN cl.val ELSE 0]],
              rest |-> hs.rest]

\* A reader that forgets its limit.
limitedReadUnbounded(n, k, avail) == Min(k, avail)

\* io.LimitedReader.Read, for a handler that asks for k bytes in all while
\* avail bytes are at hand: the number of bytes it gets.
\* A body reader limited by the magnitude of the declared length.
limitedReadMagnitude(n, k, avail) == Min(Min(k, Max(n, -n)), avail)

limitedRead(n, k, avail) == Min(Min(k, Max(n, 0)), avail)

(***************************************************************************)
(* The connection decision.                                                *)
(***************************************************************************)
\* The decision with the header compared byte for byte.
parseConnectionExactCase(r) ==
    LET conn == Get(r.Headers, "connection")
    IN  IF r.Proto = http10 /\ conn = "keep-alive" THEN [keepalive |-> TRUE, echo |-> TRUE]
        ELSE IF r.Proto = http11 /\ conn = "close" THEN [keepalive |-> FALSE, echo |-> TRUE]
        ELSE [keepalive |-> FALSE, echo |-> FALSE]

\* The decision without the echo for HTTP/1.1.
parseConnectionNoEcho11(r) ==
    LET conn == ToLower(Get(r.Headers, "connection"))
    IN  IF r.Proto = http10 /\ conn = "keep-alive" THEN [keepalive |-> TRUE, echo |-> TRUE]
        ELSE [keepalive |-> FALSE, echo |-> FALSE]

\* A decision that treats every version but HTTP/1.1 as HTTP/1.0.
parseConnectionDefault10(r) ==
    LET conn == ToLower(Get(r.Headers, "connection"))
    IN  IF r.Proto # http11 /\ conn = "keep-alive" THEN [keepalive |-> TRUE, echo |-> TRUE]
        ELSE IF r.Proto = http11 /\ conn = "close" THEN [keepalive |-> FALSE, echo |-> TRUE]
        ELSE [keepalive |-> FALSE, echo |-> FALSE]

parseConnection(r) ==
    LET conn == ToLower(Get(r.Headers, "connection"))
    IN  IF r.Proto = http10 /\ conn = "keep-alive" THEN [keepalive |-> TRUE, echo |-> TRUE]
        ELSE IF r.Proto = http11 /\ conn = "close" THEN [keepalive |-> FALSE, echo |-> TRUE]
        ELSE [keepalive |-> FALSE, echo |-> FALSE]

(***************************************************************************)
(* The response: construction in serve, Response.Write, writeHeadersTo.    *)
(***************************************************************************)
\* A response that always answers as HTTP/1.1.
newResponseFixedProto(r) ==
    LET res0 == [Status |-> 200, Headers |-> EmptyMap, proto |-> http11, buf |-> ""]
    IN  IF parseConnection(r).echo
        THEN [res0 EXCEPT !.Headers = Put(@, "Connection", Get(r.Headers, "connection"))]
        ELSE res0

\* serve, lines 139-149: the fresh Response with the echoed header.
newResponse(r) ==
    LET res0 == [Status |-> 200, Headers |-> EmptyMap, proto |-> r.Proto, buf |-> ""]
    IN  IF parseConnection(r).echo
        THEN [res0 EXCEPT !.Headers = Put(@, "Connection", Get(r.Headers, "connection"))]
        ELSE res0

\* Response.Write
Write(rs, b) == [rs EXCEPT !.buf = @ \o b]

RECURSIVE WriteAll(_, _)
WriteAll(rs, bs) == IF bs = <<>> THEN rs ELSE WriteAll(Write(rs, Head(bs)), Tail(bs))

\* writeHeadersTo, lines 67-70
statusKnown(rs) == rs.Status \in DOMAIN statusTitles

\* A finalization that keeps a Content-Length the handler has set.
finalizeKeepsLength(rs, date) ==
    [rs EXCEPT !.Headers =
        IF "Content-Length" \in DOMAIN rs.Headers THEN Put(@, "Date", date)
        ELSE Put(Put(@, "Date", date), "Content-Length", Itoa(Len(rs.buf)))]

\* writeHeadersTo, lines 72-73
finalize(rs, date) ==
    [rs EXCEPT !.Headers = Put(Put(@, "Date", date), "Content-Length", Itoa(Len(rs.buf)))]

\* The orders in which a range over the header map may visit its keys.
Orders(m) ==
    {o \in [1..Cardinality(DOMAIN m) -> DOMAIN m] :
        \A i, j \in DOMAIN o : o[i] = o[j] => i = j}

RECURSIVE headerLines(_, _)
headerLines(m, o) ==
    IF o = <<>> THEN ""
    ELSE Head(o) \o ": " \o m[Head(o)] \o CRLF \o headerLines(m, Tail(o))

\* writeHeadersTo, lines 76-80: the header block for a finalized response.
headerBlock(rs, o) ==
    rs.proto \o " " \o Itoa(rs.Status) \o " " \o statusTitles[rs.Status] \o CRLF
        \o headerLines(rs.Headers, o) \o CRLF

(***************************************************************************)
(* The environment: what peers send, what handlers do, what the clock      *)
(* shows.  Each is drawn from a small set.                                 *)
(***************************************************************************)
ReqPlain11   == "GET / HTTP/1.1\r\n\r\n"
ReqClose11   == "GET / HTTP/1.1\r\nConnection: close\r\n\r\n"
ReqPlain10   == "GET / HTTP/1.0\r\n\r\n"
ReqKeep10    == "GET / HTTP/1.0\r\nConnection: Keep-Alive\r\n\r\n"
ReqOther10   == "GET / HTTP/1.0\r\nConnection: close\r\n\r\n"
\* A request with a two-byte body, followed at once by a second request.
ReqBodyThen  == "PUT / HTTP/1.0\r\nconnection:keep-alive\r\nContent-Length: 2\r\n\r\nabGET / HTTP/1.0\r\n\r\n"
ReqBadLine   == "GET /\r\n"
ReqBadLength == "GET / HTTP/1.0\r\nContent-Length: x\r\n\r\n"
ReqPartial   == "GET / HT"
\* A request that declares a negative body length, followed by two bytes.
ReqNegLength == "PUT / HTTP/1.0\r\nContent-Length: -1\r\n\r\nab"
\* Requests in a version the server does not know.
ReqKeep20    == "GET / HTTP/2.0\r\nConnection: keep-alive\r\n\r\n"
ReqLower11   == "GET / http/1.1\r\nConnection: close\r\n\r\n"

Chunks ==
    {ReqPlain11, ReqClose11, ReqPlain10, ReqKeep10, ReqOther10, ReqBodyThen,
     ReqBadLine, ReqBadLength, ReqPartial, ReqKeep20, ReqLower11,
     ReqNegLength}

ServerChunks == {ReqKeep10, ReqPlain10, ReqBadLine}

\* A handler: the status it sets (0: none), its Write calls in order, the
\* response headers it sets and deletes, the request headers it sets.
hPlain  == [status |-> 0, writes |-> <<>>, set |-> EmptyMap, del |-> {}, reqset |-> EmptyMap]

hHello  == [hPlain EXCEPT !.writes = <<"h", "i!">>, !.set = Put(EmptyMap, "Content-Length", "99")]

hTeapot == [hPlain EXCEPT !.status = 418, !.writes = <<"x">>]

hClose  == [hPlain EXCEPT !.status = 204, !.set = Put(EmptyMap, "Connection", "close"),
                          !.reqset = Put(EmptyMap, "connection", "close")]

hStrip  == [hPlain EXCEPT !.del = {"Connection"}, !.writes = <<"ok">>]

Handlers == {hPlain, hHello, hTeapot, hClose, hStrip}

ServerHandlers == {hPlain, hTeapot}

\* time.Now().UTC().Format(...)
Dates == {"Sun, 01 Nov 2026 02:15:00 GMT"}

MaxRead == 3           \* bytes a handler asks of the request body

RECURSIVE putAll(_, _, _)
putAll(m, src, keys) ==
    IF keys = {} THEN m
    ELSE LET k == CHOOSE x \in keys : TRUE
         IN  putAll(Put(m, k, src[k]), src, keys \ {k})

RECURSIVE deleteAll(_, _)
deleteAll(m, keys) ==
    IF keys = {} THEN m
    ELSE LET k == CHOOSE x \in keys : TRUE
         IN  deleteAll(Delete(m, k), keys \ {k})

\* What handler h makes of the response.
handlerResponse(rs, h) ==
    LET r1 == IF h.status # 0 THEN [rs EXCEPT !.Status = h.status] ELSE rs
        r2 == [r1 EXCEPT !.Headers = deleteAll(putAll(@, h.set, DOMAIN h.set), h.del)]
    IN  WriteAll(r2, h.writes)

(***************************************************************************)
(* State.                                                                  *)
(***************************************************************************)
VARIABLES
    listener,    \* "listening" or "closed": Server.Serve's loop
    pc,          \* per connection: "none", "await", "dispatch", "write", "written", "closed"
    inp,         \* bytes the peer has sent and the server has not read
    peerClosed,  \* the peer has closed its side
    sent,        \* number of chunks the peer has sent
    req,         \* serve's req (the zero Request when readRequest returned nil)
    res,         \* serve's res
    keepalive,   \* serve's keepalive
    err,         \* serve's last error: "nil", "parse", "status", "write"
    closes,      \* number of netConn.Close calls
    wrote,       \* netConn.Write calls of the current loop iteration, with outcome
    handled,     \* number of handler invocations
    rx,          \* history: readRequest's request as it was when readRequest returned
    hrun         \* history: the handler that ran in this iteration and the body bytes it read

vars ==
    <<listener, pc, inp, peerClosed, sent, req, res, keepalive, err, closes, wrote,
      handled, rx, hrun>>

NoResponse == [Status |-> 0, Headers |-> EmptyMap, proto |-> "", buf |-> ""]

NoRun == [called |-> FALSE, h |-> hPlain, body |-> ""]

Running == {"await", "dispatch", "write", "written"}

InitConns(first) ==
    /\ listener = "listening"
    /\ pc = [c \in Conns |-> IF c \in first THEN "await" ELSE "none"]
    /\ inp = [c \in Conns |-> ""]
    /\ peerClosed = [c \in Conns |-> FALSE]
    /\ sent = [c \in Conns |-> 0]
    /\ req = [c \in Conns |-> NoRequest]
    /\ res = [c \in Conns |-> NoResponse]
    /\ keepalive = [c \in Conns |-> FALSE]
    /\ err = [c \in Conns |-> "nil"]
    /\ closes = [c \in Conns |-> 0]
    /\ wrote = [c \in Conns |-> <<>>]
    /\ handled = [c \in Conns |-> 0]
    /\ rx = [c \in Conns |-> NoRequest]
    /\ hrun = [c \in Conns |-> NoRun]

\* One connection, handed to httpConn.serve.
Init == InitConns({1})

\* The server before any connection is accepted.
ServerInit == InitConns({})

(***************************************************************************)
(* The peer.                                                               *)
(***************************************************************************)
Send(c, chunks, limit) ==
    /\ pc[c] = "await"
    /\ ~peerClosed[c]
    /\ sent[c] < limit
    /\ \E ch \in chunks : inp' = [inp EXCEPT ![c] = @ \o ch]
    /\ sent' = [sent EXCEPT ![c] = @ + 1]
    /\ UNCHANGED <<listener, pc, peerClosed, req, res, keepalive, err, closes, wrote,
                   handled, rx, hrun>>

PeerClose(c) ==
    /\ pc[c] = "await"
    /\ ~peerClosed[c]
    /\ peerClosed' = [peerClosed EXCEPT ![c] = TRUE]
    /\ UNCHANGED <<listener, pc, inp, sent, req, res, keepalive, err, closes, wrote,
                   handled, rx, hrun>>

(***************************************************************************)
(* httpConn.serve                                                          *)
(***************************************************************************)
\* A loop that goes on after a failed writeTo.
serveNextIgnoresError(e, ka) == IF ~ka THEN "closed" ELSE "await"

\* A loop that leaves on a failed Write only.
serveNextIgnoresStatus(e, ka) ==
    IF e = "write" THEN "closed"
    ELSE IF ~ka THEN "closed"
    ELSE "await"

\* serve, lines 153-159: where the loop goes after writeTo returned e.
serveNext(e, ka) ==
    IF e # "nil" THEN "closed"
    ELSE IF ~ka THEN "closed"
    ELSE "await"

\* A Close at the end of every iteration.
closeEveryIteration(next, n) == n + 1

\* serve, line 127: the deferred Close runs when the loop is left.
deferClose(next, n) == IF next = "closed" THEN n + 1 ELSE n

\* A netConn.Write call and whether it succeeded.
NetWrite(kind, bytes, ok) == [kind |-> kind, bytes |-> bytes, ok |-> ok]

\* serve, lines 132-149: a request is read; the response is set up.
ReadRequestOK(c) ==
    LET rr == readRequest(inp[c], peerClosed[c])
    IN  /\ pc[c] = "await"
        /\ rr.st = "ok"
        /\ req' = [req EXCEPT ![c] = rr.req]
        /\ rx' = [rx EXCEPT ![c] = rr.req]
        /\ inp' = [inp EXCEPT ![c] = rr.rest]
        /\ res' = [res EXCEPT ![c] = newResponse(rr.req)]
        /\ keepalive' = [keepalive EXCEPT ![c] = parseConnection(rr.req).keepalive]
        /\ err' = [err EXCEPT ![c] = "nil"]
        /\ wrote' = [wrote EXCEPT ![c] = <<>>]
        /\ hrun' = [hrun EXCEPT ![c] = NoRun]
        /\ pc' = [pc EXCEPT ![c] = "dispatch"]
        /\ UNCHANGED <<listener, peerClosed, sent, closes, handled>>

\* serve, lines 132-137: readRequest fails; the fixed reply is written
\* (the result of that Write is ignored) and the loop is left.
ReadRequestErr(c) ==
    LET rr == readRequest(inp[c], peerClosed[c])
    IN  /\ pc[c] = "await"
        /\ rr.st = "err"
        /\ req' = [req EXCEPT ![c] = NoRequest]
        /\ rx' = [rx EXCEPT ![c] = rr.req]
        /\ inp' = [inp EXCEPT ![c] = rr.rest]
        /\ res' = [res EXCEPT ![c] = NoResponse]
        /\ keepalive' = [keepalive EXCEPT ![c] = FALSE]
        /\ err' = [err EXCEPT ![c] = "parse"]
        /\ \E ok \in BOOLEAN : wrote' = [wrote EXCEPT ![c] = <<NetWrite("bad", bad, ok)>>]
        /\ hrun' = [hrun EXCEPT ![c] = NoRun]
        /\ pc' = [pc EXCEPT ![c] = "closed"]
        /\ closes' = [closes EXCEPT ![c] = deferClose("closed", @)]
        /\ UNCHANGED <<listener, peerClosed, sent, handled>>

\* serve, line 151: the handler runs to completion.  It reads k bytes of the
\* body at most.
ServeHTTP(c, handlers) ==
    /\ pc[c] = "dispatch"
    /\ \E h \in handlers, k \in 0..MaxRead :
          LET n == limitedRead(req[c].Body.N, k, Len(inp[c]))
          IN  /\ req' = [req EXCEPT ![c] =
                            [@ EXCEPT !.Body = [N |-> @.N - n],
                                      !.Headers = putAll(@, h.reqset, DOMAIN h.reqset)]]
              /\ inp' = [inp EXCEPT ![c] = Drop(@, n)]
              /\ res' = [res EXCEPT ![c] = handlerResponse(@, h)]
              /\ hrun' = [hrun EXCEPT ![c] = [called |-> TRUE, h |-> h, body |-> Take(inp[c], n)]]
    /\ handled' = [handled EXCEPT ![c] = @ + 1]
    /\ pc' = [pc EXCEPT ![c] = "write"]
    /\ UNCHANGED <<listener, peerClosed, sent, keepalive, err, closes, wrote, rx>>

\* The Write calls of Response.writeTo (lines 53-63, 82) and its error, for
\* a finalized response, a header order and the outcomes of the two writes.
\* An empty buffer makes no Write call.
\* A writeTo that goes on to the body after the header block failed.
writeCallsBodyAnyway(fin, o, hok, bok) ==
    LET hw == NetWrite("headers", headerBlock(fin, o), hok)
    IN  IF fin.buf = "" THEN [calls |-> <<hw>>, err |-> IF hok THEN "nil" ELSE "write"]
        ELSE [calls |-> <<hw, NetWrite("body", fin.buf, bok)>>,
              err   |-> IF bok THEN "nil" ELSE "write"]

writeCalls(fin, o, hok, bok) ==
    LET hw == NetWrite("headers", headerBlock(fin, o), hok)
    IN  IF ~hok THEN [calls |-> <<hw>>, err |-> "write"]
        ELSE IF fin.buf = "" THEN [calls |-> <<hw>>, err |-> "nil"]
        ELSE [calls |-> <<hw, NetWrite("body", fin.buf, bok)>>,
              err   |-> IF bok THEN "nil" ELSE "write"]

\* serve, line 153 with writeHeadersTo, lines 67-70: no title for the status.
WriteUnsupported(c) ==
    /\ pc[c] = "write"
    /\ ~statusKnown(res[c])
    /\ err' = [err EXCEPT ![c] = "status"]
    /\ pc' = [pc EXCEPT ![c] = "written"]
    /\ UNCHANGED <<listener, inp, peerClosed, sent, req, res, keepalive, closes, wrote,
                   handled, rx, hrun>>

\* serve, line 153 with writeTo: the response is serialized and written.
\* bytes.Buffer.WriteTo leaves the buffer empty when its Write succeeded.
WriteResponse(c, dates) ==
    /\ pc[c] = "write"
    /\ statusKnown(res[c])
    /\ \E d \in dates, hok \in BOOLEAN, bok \in BOOLEAN :
          LET fin == finalize(res[c], d)
          IN  \E o \in Orders(fin.Headers) :
                 LET w == writeCalls(fin, o, hok, bok)
                 IN  /\ (hok /\ fin.buf # "") \/ bok
                     /\ wrote' = [wrote EXCEPT ![c] = w.calls]
                     /\ err' = [err EXCEPT ![c] = w.err]
                     /\ res' = [res EXCEPT ![c] =
                                   IF w.err = "nil" THEN [fin EXCEPT !.buf = ""] ELSE fin]
    /\ pc' = [pc EXCEPT ![c] = "written"]
    /\ UNCHANGED <<listener, inp, peerClosed, sent, req, keepalive, closes, handled, rx,
                   hrun>>

\* serve, lines 153-160: writeTo has returned; the loop is left, or goes
\* round.  Either way the iteration is over and its req and res are gone;
\* a loop that is left keeps, as history, the request it read last and its
\* decision.
\* A loop that takes its decision from the request as the handler left it.
LoopRereads(c) ==
    LET next == serveNext(err[c], parseConnection(req[c]).keepalive)
    IN  /\ pc[c] = "written"
        /\ pc' = [pc EXCEPT ![c] = next]
        /\ closes' = [closes EXCEPT ![c] = deferClose(next, @)]
        /\ req' = [req EXCEPT ![c] = NoRequest]
        /\ res' = [res EXCEPT ![c] = NoResponse]
        /\ wrote' = [wrote EXCEPT ![c] = <<>>]
        /\ hrun' = [hrun EXCEPT ![c] = NoRun]
        /\ IF next = "await"
           THEN /\ keepalive' = [keepalive EXCEPT ![c] = FALSE]
                /\ rx' = [rx EXCEPT ![c] = NoRequest]
           ELSE UNCHANGED <<keepalive, rx>>
        /\ UNCHANGED <<listener, inp, peerClosed, sent, err, handled>>

Loop(c) ==
    LET next == serveNext(err[c], keepalive[c])
    IN  /\ pc[c] = "written"
        /\ pc' = [pc EXCEPT ![c] = next]
        /\ closes' = [closes EXCEPT ![c] = deferClose(next, @)]
        /\ req' = [req EXCEPT ![c] = NoRequest]
        /\ res' = [res EXCEPT ![c] = NoResponse]
        /\ wrote' = [wrote EXCEPT ![c] = <<>>]
        /\ hrun' = [hrun EXCEPT ![c] = NoRun]
        /\ IF next = "await"
           THEN /\ keepalive' = [keepalive EXCEPT ![c] = FALSE]
                /\ rx' = [rx EXCEPT ![c] = NoRequest]
           ELSE UNCHANGED <<keepalive, rx>>
        /\ UNCHANGED <<listener, inp, peerClosed, sent, err, handled>>

ConnStep(c, chunks, limit, handlers) ==
    \/ Send(c, chunks, limit)
    \/ PeerClose(c)
    \/ ReadRequestOK(c)
    \/ ReadRequestErr(c)
    \/ ServeHTTP(c, handlers)
    \/ WriteUnsupported(c)
    \/ WriteResponse(c, Dates)
    \/ Loop(c)

\* The same without the peer's disconnect.
ServerConnStep(c, chunks, limit, handlers) ==
    \/ Send(c, chunks, limit)
    \/ ReadRequestOK(c)
    \/ ReadRequestErr(c)
    \/ ServeHTTP(c, handlers)
    \/ WriteUnsupported(c)
    \/ WriteResponse(c, Dates)
    \/ Loop(c)

(***************************************************************************)
(* Server.Serve                                                            *)
(***************************************************************************)
\* A listener that runs each connection's loop itself before accepting again.
AcceptSerial ==
    /\ listener = "listening"
    /\ \A d \in Conns : pc[d] \in {"none", "closed"}
    /\ \E c \in Conns :
          /\ pc[c] = "none"
          /\ \A d \in Conns : d < c => pc[d] # "none"
          /\ pc' = [pc EXCEPT ![c] = "await"]
    /\ UNCHANGED <<listener, inp, peerClosed, sent, req, res, keepalive, err, closes,
                   wrote, handled, rx, hrun>>

\* Serve, lines 173-181: a connection is accepted and its loop started.
Accept ==
    /\ listener = "listening"
    /\ \E c \in Conns :
          /\ pc[c] = "none"
          /\ \A d \in Conns : d < c => pc[d] # "none"
          /\ pc' = [pc EXCEPT ![c] = "await"]
    /\ UNCHANGED <<listener, inp, peerClosed, sent, req, res, keepalive, err, closes,
                   wrote, handled, rx, hrun>>

\* Serve, lines 173-176 and 170: Accept fails; Serve returns and closes the listener.
AcceptError ==
    /\ listener = "listening"
    /\ listener' = "closed"
    /\ UNCHANGED <<pc, inp, peerClosed, sent, req, res, keepalive, err, closes, wrote,
                   handled, rx, hrun>>

(***************************************************************************)
(* Specifications.                                                         *)
(***************************************************************************)
\* One connection in full detail.
Next == \E c \in Conns : ConnStep(c, Chunks, MaxSends, Handlers)

Spec == Init /\ [][Next]_vars

\* The listener and its connections.
ServerNext ==
    \/ Accept
    \/ AcceptError
    \/ \E c \in Conns : ServerConnStep(c, ServerChunks, 1, ServerHandlers)

ServerSpec == ServerInit /\ [][ServerNext]_vars

(***************************************************************************)
(* The parser on its own: one connection whose peer has sent one request   *)
(* text, drawn from bounded sets of request lines and header lines.        *)
(***************************************************************************)
MaxLine == 5           \* bytes of a generated request line
MaxHeaders == 2        \* header lines of a generated request

\* All byte strings over alphabet of at most n bytes.
RECURSIVE Strings(_, _)
Strings(alphabet, n) ==
    IF n = 0 THEN {""}
    ELSE LET S == Strings(alphabet, n - 1)
         IN  S \cup {s \o ch : s \in S, ch \in alphabet}

RequestLines == Strings({"a", " "}, MaxLine) \cup {"GET / HTTP/1.1", "GET  / HTTP/1.1"}

HeaderKeys == {"Host", "HOST", " Key ", "Content-Length"}

HeaderValues == {"a", " 7 ", "c:d", "-1"}

ColonLines == {k \o ":" \o v : k \in HeaderKeys, v \in HeaderValues}

NoColonLines == {"nocolon"}

HeaderLines == ColonLines \cup NoColonLines

\* The sequences of at most n header lines.
RECURSIVE HeaderSeqs(_)
HeaderSeqs(n) ==
    IF n = 0 THEN {<<>>}
    ELSE LET S == HeaderSeqs(n - 1)
         IN  S \cup {Append(hs, l) : hs \in S, l \in HeaderLines}

RECURSIVE JoinLines(_)
JoinLines(ls) == IF ls = <<>> THEN "" ELSE Head(ls) \o CRLF \o JoinLines(Tail(ls))

\* The text of a request: its request line, its header lines, the empty line.
RequestText(line, hs) == line \o CRLF \o JoinLines(hs) \o CRLF

ParseInputs ==
    {RequestText(line, <<>>) : line \in RequestLines}
        \cup {RequestText("GET / HTTP/1.0", hs) : hs \in HeaderSeqs(MaxHeaders)}

ParseInit ==
    /\ listener = "listening"
    /\ pc = [c \in Conns |-> IF c = 1 THEN "await" ELSE "none"]
    /\ \E in \in ParseInputs : inp = [c \in Conns |-> IF c = 1 THEN in ELSE ""]
    /\ peerClosed = [c \in Conns |-> FALSE]
    /\ sent = [c \in Conns |-> IF c = 1 THEN 1 ELSE 0]
    /\ req = [c \in Conns |-> NoRequest]
    /\ res = [c \in Conns |-> NoResponse]
    /\ keepalive = [c \in Conns |-> FALSE]
    /\ err = [c \in Conns |-> "nil"]
    /\ closes = [c \in Conns |-> 0]
    /\ wrote = [c \in Conns |-> <<>>]
    /\ handled = [c \in Conns |-> 0]
    /\ rx = [c \in Conns |-> NoRequest]
    /\ hrun = [c \in Conns |-> NoRun]

\* serve up to the handler call: the request is read, or refused.
ParseNext == \E c \in Conns : ReadRequestOK(c) \/ ReadRequestErr(c)

ParseSpec == ParseInit /\ [][ParseNext]_vars

\* readRequest of connection c has all it needs to return.
ReadReady(c) == pc[c] = "await" /\ readRequest(inp[c], peerClosed[c]).st # "block"

\* Weak fairness of the read step of connection c's loop,
\* WF_vars(ReadRequestOK(c) \/ ReadRequestErr(c)), with the step's
\* enabling condition written out as the state predicate ReadReady(c).
FairRead(c) ==
    \/ []<>(~ReadReady(c))
    \/ []<><<ReadRequestOK(c) \/ ReadRequestErr(c)>>_vars

\* The steps of connection c's loop after readRequest, in the goroutine
\* started at line 181.
ServeSteps(c, handlers) ==
    \/ ServeHTTP(c, handlers)
    \/ WriteUnsupported(c)
    \/ WriteResponse(c, Dates)
    \/ Loop(c)

\* The goroutine of connection c keeps running.
FairServe(c, handlers) == FairRead(c) /\ WF_vars(ServeSteps(c, handlers))

\* The connections accepted after the first one.
LaterConns == Conns \ {1}

\* The server with its scheduling: the listener loop keeps running and the
\* loops of the later connections keep running; the first connection's
\* peer and handler may stall for ever.
StallChunks == {ReqPlain10, ReqBadLine}

StallNext ==
    \/ Accept
    \/ AcceptError
    \/ \E c \in Conns : ServerConnStep(c, StallChunks, 1, ServerHandlers)

StallSpec ==
    /\ ServerInit
    /\ [][StallNext]_vars
    /\ WF_vars(Accept)
    /\ \A c \in LaterConns : FairServe(c, ServerHandlers)

\* One connection with its scheduling: the peer sends whole requests or
\* the beginning of a request line and may close the stream at any time;
\* the connection's goroutine keeps running.
LiveChunks == {ReqKeep10, ReqPartial}

LiveNext == \E c \in Conns : ConnStep(c, LiveChunks, MaxSends, ServerHandlers)

LiveSpec == Init /\ [][LiveNext]_vars /\ \A c \in Conns : FairServe(c, ServerHandlers)

(***************************************************************************)
(* Properties.                                                             *)
(***************************************************************************)
\* The steps of connection c's loop.
Parsed(c) == pc[c] = "await" /\ pc'[c] = "dispatch"

Dispatched(c) == pc[c] = "dispatch" /\ pc'[c] = "write"

Wrote(c) == pc[c] = "write" /\ pc'[c] = "written"

Looped(c) == pc[c] = "written" /\ pc'[c] # "written"

\* The request as it was parsed carries no Connection header.
NoConnection(r) == "connection" \notin DOMAIN r.Headers

\* The handler that ran left the response's Connection header alone.
LeftConnection(c) ==
    "Connection" \notin DOMAIN hrun[c].h.set /\ "Connection" \notin hrun[c].h.del

\* C1: for a parsed HTTP/1.1 request without Connection header no Connection
\* header is put into the response, and once its response is written without
\* error the loop goes back to awaiting the next request.
C1_KeepAlive11ByDefault ==
    [][\A c \in Conns :
          /\ (Parsed(c) /\ rx'[c].Proto = http11 /\ NoConnection(rx'[c]))
                => "Connection" \notin DOMAIN res'[c].Headers
          /\ (Looped(c) /\ err[c] = "nil" /\ rx[c].Proto = http11 /\ NoConnection(rx[c]))
                => pc'[c] = "await"]_vars

\* C2 as claimed: when a request with Content-Length n is followed at once
\* by more bytes on a kept-alive connection, the handler's reads deliver body
\* bytes only and the stream is left at the first byte after the body,
\* however much the handler read.
C2_NextParseAfterBody ==
    [][\A c \in Conns :
          (Dispatched(c) /\ keepalive[c] /\ req[c].Body.N >= 0
                /\ Len(inp[c]) > req[c].Body.N)
             => /\ hrun'[c].body = Take(inp[c], Len(hrun'[c].body))
                /\ Len(hrun'[c].body) <= req[c].Body.N
                /\ inp'[c] = Drop(inp[c], req[c].Body.N)]_vars

\* C2 as amended: the handler's reads deliver the first k bytes of the body
\* for some k in 0..n and never a byte beyond it, and the stream is left at
\* the first byte the handler did not read: at the first byte after the body
\* exactly when the handler read all n bytes.
C2_NextParseAfterRead ==
    [][\A c \in Conns :
          (Dispatched(c) /\ keepalive[c] /\ req[c].Body.N >= 0
                /\ Len(inp[c]) > req[c].Body.N)
             => LET n == req[c].Body.N
                    k == Len(hrun'[c].body)
                IN  /\ k \in 0..n
                    /\ hrun'[c].body = Take(inp[c], k)
                    /\ req'[c].Body.N = n - k
                    /\ inp'[c] = Drop(inp[c], k)
                    /\ (inp'[c] = Drop(inp[c], n)) <=> (k = n)]_vars

\* C2 witness: the handler read one byte of a two-byte body and the next
\* request was parsed from the second body byte on.
C2_Witness ==
    \E c \in Conns :
        /\ handled[c] = 1
        /\ pc[c] = "dispatch"
        /\ rx[c].Method = "bGET"
        /\ rx[c].Proto = http10

\* The protocol token of a status line: the bytes before the first space.
StatusToken(bytes) == Take(bytes, Index(bytes, " ") - 1)

StatusLines(c) == {i \in DOMAIN wrote[c] : wrote[c][i].kind \in {"bad", "headers"}}

\* C3 as claimed: every status line written answers in the protocol of the
\* request read, on the bad-request path too; a request that declared
\* HTTP/1.0 gets no HTTP/1.1 status line.
C3_StatusLineMirrorsRequest ==
    \A c \in Conns : \A i \in StatusLines(c) :
        (rx[c].Proto = http10 /\ wrote[c][i].ok) => StatusToken(wrote[c][i].bytes) = http10

\* C3 as amended: the status line of every serialized response carries the
\* protocol token of the parsed request it answers; the fixed reply of the
\* bad-request path carries HTTP/1.1 whatever the request declared.
C3_StatusLineMirrorsParsed ==
    \A c \in Conns : \A i \in StatusLines(c) :
        /\ wrote[c][i].kind = "headers" =>
              /\ StatusToken(wrote[c][i].bytes) = rx[c].Proto
              /\ rx[c].Proto = http10 => ~HasPrefix(wrote[c][i].bytes, "HTTP/1.1")
        /\ wrote[c][i].kind = "bad" => StatusToken(wrote[c][i].bytes) = "HTTP/1.1"

\* C3 witness: an HTTP/1.0 request was answered with an HTTP/1.0 status line.
C3_Witness ==
    \E c \in Conns :
        /\ rx[c].Proto = http10
        /\ pc[c] = "written"
        /\ wrote[c] # <<>>
        /\ wrote[c][1].kind = "headers"
        /\ wrote[c][1].ok
        /\ HasPrefix(wrote[c][1].bytes, "HTTP/1.0 200 OK\r\n")

\* The Connection header of the parsed request asks for keep-alive, in any case of letters.
AsksKeepAlive(r) == ToLower(Get(r.Headers, "connection")) = "keep-alive"

\* The header block written carries a Connection header line.
EchoOnWire(c) == Contains(wrote[c][1].bytes, "\r\nConnection: ")

\* C4: for a parsed HTTP/1.0 request the Connection header is echoed into
\* the response exactly when its value is "keep-alive" in any case of
\* letters (never when the header is absent), and after a response written
\* without error the loop awaits the next request exactly in that case and
\* is left otherwise.
C4_KeepAlive10 ==
    [][\A c \in Conns :
          /\ (Parsed(c) /\ rx'[c].Proto = http10)
                => /\ ("Connection" \in DOMAIN res'[c].Headers) <=> AsksKeepAlive(rx'[c])
                   /\ AsksKeepAlive(rx'[c])
                         => res'[c].Headers["Connection"] = rx'[c].Headers["connection"]
                   /\ NoConnection(rx'[c]) => ~AsksKeepAlive(rx'[c])
          /\ (Wrote(c) /\ rx[c].Proto = http10 /\ wrote'[c] # <<>> /\ LeftConnection(c))
                => (EchoOnWire(c)' <=> AsksKeepAlive(rx[c]))
          /\ (Looped(c) /\ rx[c].Proto = http10 /\ err[c] = "nil")
                => /\ pc'[c] = (IF AsksKeepAlive(rx[c]) THEN "await" ELSE "closed")
                   /\ closes'[c] = (IF AsksKeepAlive(rx[c]) THEN 0 ELSE 1)]_vars

\* C4 witness: an HTTP/1.0 request with "Connection: Keep-Alive" was
\* answered with the header echoed and the connection is about to be kept.
C4_Witness ==
    \E c \in Conns :
        /\ pc[c] = "written"
        /\ err[c] = "nil"
        /\ rx[c].Proto = http10
        /\ Get(rx[c].Headers, "connection") = "Keep-Alive"
        /\ keepalive[c]
        /\ Contains(wrote[c][1].bytes, "\r\nConnection: Keep-Alive\r\n")

\* The parsed request is HTTP/1.1 with "Connection: close".
Close11(r) == r.Proto = http11 /\ Get(r.Headers, "connection") = "close"

\* C5: for a parsed HTTP/1.1 request with Connection value "close" the
\* response is given the header Connection: close, which is on the wire
\* when the handler leaves it alone, and the loop is left after this one
\* exchange: the connection is closed and nothing more is written or handled.
C5_Close11 ==
    [][\A c \in Conns :
          /\ (Parsed(c) /\ Close11(rx'[c]))
                => /\ Get(res'[c].Headers, "Connection") = "close"
                   /\ ~keepalive'[c]
          /\ (Wrote(c) /\ Close11(rx[c]) /\ wrote'[c] # <<>> /\ LeftConnection(c))
                => Contains(wrote'[c][1].bytes, "\r\nConnection: close\r\n")
          /\ (Looped(c) /\ Close11(rx[c]))
                => pc'[c] = "closed" /\ closes'[c] = 1
          /\ (pc[c] = "closed" /\ Close11(rx[c]))
                => /\ pc'[c] = "closed"
                   /\ handled'[c] = handled[c]
                   /\ wrote'[c] = wrote[c]]_vars

\* C5 witness: the connection is closed after the one response was written.
C5_Witness ==
    \E c \in Conns :
        /\ pc[c] = "closed"
        /\ Close11(rx[c])
        /\ err[c] = "nil"
        /\ handled[c] = 1
        /\ closes[c] = 1

\* C6: when readRequest fails, whatever the cause and the declared
\* protocol, the loop makes exactly one Write, of the fixed 400 reply, calls
\* no handler, and is left with the connection closed; a closed connection
\* parses and writes nothing more.
C6_BadRequest ==
    [][\A c \in Conns :
          /\ (pc[c] = "await" /\ pc'[c] # "await"
                /\ readRequest(inp[c], peerClosed[c]).st = "err")
                => /\ Len(wrote'[c]) = 1
                   /\ wrote'[c][1].kind = "bad"
                   /\ wrote'[c][1].bytes
                         = "HTTP/1.1 400 Bad Request\r\nConnection: close\r\n\r\n"
                   /\ handled'[c] = handled[c]
                   /\ hrun'[c].called = FALSE
                   /\ err'[c] = "parse"
                   /\ pc'[c] = "closed"
                   /\ closes'[c] = 1
          /\ pc[c] = "closed"
                => /\ pc'[c] = "closed"
                   /\ inp'[c] = inp[c]
                   /\ handled'[c] = handled[c]
                   /\ wrote'[c] = wrote[c]]_vars

\* C6 witness: a request that declared HTTP/1.0 with an unparseable
\* Content-Length got the fixed reply and the connection is closed.
C6_Witness ==
    \E c \in Conns :
        /\ pc[c] = "closed"
        /\ err[c] = "parse"
        /\ rx[c].Proto = http10
        /\ Get(rx[c].Headers, "content-length") = "x"
        /\ handled[c] = 0
        /\ wrote[c] = <<NetWrite("bad", "HTTP/1.1 400 Bad Request\r\nConnection: close\r\n\r\n", TRUE)>>

RECURSIVE Flatten(_)
Flatten(bs) == IF bs = <<>> THEN "" ELSE Head(bs) \o Flatten(Tail(bs))

\* The response of the iteration went out whole: the header block and, if
\* the handler wrote any, the body bytes, each by a Write that succeeded.
FullyWritten(c) ==
    LET body == Flatten(hrun[c].h.writes)
    IN  /\ hrun[c].called
        /\ err[c] = "nil"
        /\ Len(wrote[c]) = (IF body = "" THEN 1 ELSE 2)
        /\ \A i \in DOMAIN wrote[c] : wrote[c][i].ok
        /\ wrote[c][1].kind = "headers"
        /\ body # "" => (wrote[c][2].kind = "body" /\ wrote[c][2].bytes = body)

\* C7: on one connection a request is read only by a loop that awaits one;
\* the loop comes to await a further request only after the handler of the
\* request before has returned and its response has gone out whole; the
\* handler runs only between the two, once per parsed request.
C7_Sequential ==
    [][\A c \in Conns :
          /\ (pc'[c] = "dispatch" /\ pc[c] # "dispatch") => pc[c] = "await"
          /\ (pc'[c] = "await" /\ pc[c] # "await")
                => (pc[c] = "none" \/ (pc[c] = "written" /\ FullyWritten(c)))
          /\ handled'[c] # handled[c]
                => (Dispatched(c) /\ handled'[c] = handled[c] + 1)
          /\ Len(inp'[c]) < Len(inp[c]) => pc[c] \in {"await", "dispatch"}
          /\ wrote'[c] # wrote[c] => pc[c] \in {"await", "write", "written"}]_vars

\* C7 witness: a second request on a kept-alive connection has been answered.
C7_Witness ==
    \E c \in Conns : handled[c] = 2 /\ pc[c] = "written" /\ FullyWritten(c)

\* All of connection d's state.
ConnView(d) ==
    <<pc[d], inp[d], peerClosed[d], sent[d], req[d], res[d], keepalive[d], err[d],
      closes[d], wrote[d], handled[d], rx[d], hrun[d]>>

\* C8: a connection's socket is closed once when its loop is left, on every
\* way out, by a step of that loop which touches no other connection, and
\* is open as long as the loop runs.
C8_ClosedOnce ==
    [][\A c \in Conns :
          /\ closes[c] = (IF pc[c] = "closed" THEN 1 ELSE 0)
          /\ closes'[c] = (IF pc'[c] = "closed" THEN 1 ELSE 0)
          /\ closes'[c] # closes[c]
                => /\ pc[c] \in Running
                   /\ \A d \in Conns \ {c} : ConnView(d)' = ConnView(d)
          /\ (pc[c] \in Running /\ pc'[c] \notin Running) => pc'[c] = "closed"]_vars

\* C8 witness: two connections, each closed once, one on the bad-request
\* path and one after a failed Write.
C8_Witness ==
    \E c, d \in Conns :
        /\ pc[c] = "closed" /\ err[c] = "parse" /\ closes[c] = 1
        /\ pc[d] = "closed" /\ err[d] = "write" /\ closes[d] = 1

\* C9: a response whose status has no title is not written at all; writeTo
\* fails and the loop is left and the connection closed, also when the
\* request asked for keep-alive; neither step touches the listener or
\* another connection.
C9_UnknownStatus ==
    [][\A c \in Conns :
          /\ (pc[c] = "write" /\ pc'[c] # "write"
                /\ res[c].Status \notin {200, 201, 202, 203, 204})
                => /\ err'[c] = "status"
                   /\ wrote'[c] = <<>>
                   /\ listener' = listener
                   /\ \A d \in Conns \ {c} : ConnView(d)' = ConnView(d)
          /\ (Looped(c) /\ err[c] = "status")
                => /\ pc'[c] = "closed"
                   /\ closes'[c] = 1
                   /\ wrote'[c] = <<>>
                   /\ listener' = listener
                   /\ \A d \in Conns \ {c} : ConnView(d)' = ConnView(d)]_vars

\* C9 witness: a keep-alive request whose response had no title for its
\* status left its connection closed, while the listener still listens and
\* another connection has its response written.
C9_Witness ==
    \E c, d \in Conns :
        /\ pc[c] = "closed" /\ err[c] = "status" /\ keepalive[c]
        /\ AsksKeepAlive(rx[c]) /\ handled[c] = 1 /\ wrote[c] = <<>>
        /\ listener = "listening"
        /\ pc[d] = "written" /\ FullyWritten(d)

\* C10: when the handler left a status with a title and made Write calls of
\* N bytes in all, a response written without error has one Date header
\* line, one Content-Length header line, of value N, then the blank line,
\* and after it the N bytes in the order written (no body Write for N = 0).
C10_Serialized ==
    \A c \in Conns :
        (pc[c] = "written" /\ hrun[c].called /\ err[c] = "nil")
           => LET hb   == wrote[c][1].bytes
                  body == Flatten(hrun[c].h.writes)
              IN  /\ wrote[c][1].kind = "headers"
                  /\ Count(hb, "\r\nDate: ") = 1
                  /\ Count(hb, "\r\nContent-Length: ") = 1
                  /\ Contains(hb, "\r\nContent-Length: " \o Itoa(Len(body)) \o "\r\n")
                  /\ Count(hb, "\r\n\r\n") = 1
                  /\ HasSuffix(hb, "\r\n\r\n")
                  /\ Len(wrote[c]) = (IF body = "" THEN 1 ELSE 2)
                  /\ body # "" => wrote[c][2].bytes = body

\* C10 witness: a handler that set Content-Length: 99 and wrote "h" then
\* "i!" had Content-Length: 3 and the body "hi!" sent.
C10_Witness ==
    \E c \in Conns :
        /\ pc[c] = "written"
        /\ err[c] = "nil"
        /\ hrun[c].called
        /\ hrun[c].h.writes = <<"h", "i!">>
        /\ Get(hrun[c].h.set, "Content-Length") = "99"
        /\ Contains(wrote[c][1].bytes, "\r\nContent-Length: 3\r\n")
        /\ wrote[c][2].bytes = "hi!"

\* The loop has left readRequest, one way or the other.
ReadDone(c) == pc[c] = "await" /\ pc'[c] # "await"

\* C11: a request line is accepted exactly when it holds exactly two
\* spaces, that is three space-separated fields, empty ones counted; then
\* method, URI and version are these fields, which joined by single spaces
\* give the line back; every other line, the empty line among them, fails
\* the parse: the bad-request path is taken and no request is handed on.
C11_RequestLine ==
    [][\A c \in Conns : \A line \in RequestLines :
          (ReadDone(c) /\ inp[c] = RequestText(line, <<>>))
             => IF Count(line, " ") = 2
                THEN /\ pc'[c] = "dispatch"
                     /\ req'[c].Method \o " " \o req'[c].URI \o " " \o req'[c].Proto = line
                     /\ Count(req'[c].Method, " ") = 0
                     /\ Count(req'[c].URI, " ") = 0
                     /\ Count(req'[c].Proto, " ") = 0
                ELSE /\ pc'[c] = "closed"
                     /\ err'[c] = "parse"
                     /\ req'[c] = NoRequest
                     /\ handled'[c] = handled[c]]_vars

\* C11 as stated: the same, and every line with two consecutive spaces is
\* among the lines that fail the parse.
C11_ConsecutiveSpacesFail ==
    [][\A c \in Conns : \A line \in RequestLines :
          (ReadDone(c) /\ inp[c] = RequestText(line, <<>>))
             => /\ (Count(line, " ") = 2) => pc'[c] = "dispatch"
                /\ (Count(line, " ") # 2 \/ Contains(line, "  "))
                      => (pc'[c] = "closed" /\ err'[c] = "parse")]_vars

\* C11 witness: a line of two fields around two consecutive spaces was
\* accepted as three fields, the middle one (the URI) empty.
C11_Witness ==
    \E c \in Conns :
        /\ pc[c] = "dispatch"
        /\ req[c].Method = "a" /\ req[c].URI = "" /\ req[c].Proto = "a"
        /\ req[c].Headers = EmptyMap

\* The requests of one header line "k:v", alone or next to a line without
\* a colon.
OneHeaderTexts(k, v) ==
    {RequestText("GET / HTTP/1.0", hs) :
        hs \in {<<k \o ":" \o v>>} \cup
               {<<k \o ":" \o v, n>> : n \in NoColonLines} \cup
               {<<n, k \o ":" \o v>> : n \in NoColonLines}}

\* The header mapping of the last read is the single entry key |-> val.
StoredExactly(c, key, val) ==
    /\ pc'[c] = "dispatch"
    /\ req'[c].Headers = Put(EmptyMap, key, val)

\* C12 (amended): a header line "K:V" is split at its first colon only and
\* stored under the key lowercase(K), K not trimmed, with the value
\* trim(V); a non-empty line without a colon is dropped, the parse goes on
\* and nothing is stored for it.
C12_HeaderLine ==
    [][\A c \in Conns :
          /\ \A k \in HeaderKeys, v \in HeaderValues :
                (ReadDone(c) /\ inp[c] \in OneHeaderTexts(k, v)
                    /\ ToLower(k) # "content-length")
                   => /\ StoredExactly(c, ToLower(k), TrimSpace(v))
                      /\ ~Contains(ToLower(k), ":")
                      /\ Contains(v, ":") => Contains(req'[c].Headers[ToLower(k)], ":")
          /\ \A n \in NoColonLines :
                (ReadDone(c) /\ inp[c] = RequestText("GET / HTTP/1.0", <<n>>))
                   => (pc'[c] = "dispatch" /\ req'[c].Headers = EmptyMap)]_vars

\* C12 as stated: the key stored is lowercase(trim(K)).
C12_TrimmedKey ==
    [][\A c \in Conns : \A k \in HeaderKeys, v \in HeaderValues :
          (ReadDone(c) /\ inp[c] \in OneHeaderTexts(k, v)
              /\ ToLower(k) # "content-length")
             => StoredExactly(c, ToLower(TrimSpace(k)), TrimSpace(v))]_vars

\* C12 witness: the line " Key :c:d" next to a line without a colon was
\* stored under " key ", spaces kept, with the value "c:d".
C12_Witness ==
    \E c \in Conns :
        /\ pc[c] = "dispatch"
        /\ inp[c] = ""
        /\ req[c].Headers = Put(EmptyMap, " key ", "c:d")

\* C13: the listener accepts whenever it is listening and a connection is
\* waiting, whatever state the loops of the earlier connections are in;
\* with the first connection stalled for ever (silent, or blocked in its
\* handler), a later connection is still accepted, unless Accept fails,
\* and its request is still read and answered or refused.
C13_NoHeadOfLineBlocking ==
    /\ []((listener = "listening" /\ \E c \in Conns : pc[c] = "none") => ENABLED Accept)
    /\ \A c \in LaterConns :
          /\ (listener = "listening" /\ pc[c] = "none")
                ~> (pc[c] # "none" \/ listener = "closed")
          /\ (pc[c] = "await" /\ inp[c] # "") ~> (pc[c] \in {"written", "closed"})

\* C13 witness: the first connection is blocked in its handler, the second
\* one, accepted after it, has its response on the wire.
C13_Witness ==
    /\ pc[1] = "dispatch"
    /\ \E c \in LaterConns : pc[c] = "written" /\ handled[c] = 1 /\ FullyWritten(c)

\* Connection c waits in readRequest, the bytes it has hold no line
\* terminator and the peer has closed the stream.
PartialLineThenClose(c) ==
    /\ pc[c] = "await"
    /\ peerClosed[c]
    /\ inp[c] # ""
    /\ ~Contains(inp[c], "\n")

\* C14: when the peer has sent an incomplete request line and closed the
\* stream, readRequest does not block; the loop eventually attempts the
\* fixed 400 reply, is left and closes the connection, with no handler
\* call in between.
C14_PartialLineReleased ==
    /\ [](\A c \in Conns : PartialLineThenClose(c) => ReadReady(c))
    /\ \A c \in Conns, k \in 0..MaxSends :
          (PartialLineThenClose(c) /\ handled[c] = k)
             ~> /\ pc[c] = "closed"
                /\ closes[c] = 1
                /\ err[c] = "parse"
                /\ Len(wrote[c]) = 1
                /\ wrote[c][1].kind = "bad"
                /\ wrote[c][1].bytes = bad
                /\ handled[c] = k

\* C14 witness: the peer sent the beginning of a request line and closed;
\* the fixed reply was attempted and the connection is closed, no handler
\* was called.
C14_Witness ==
    \E c \in Conns :
        /\ pc[c] = "closed"
        /\ peerClosed[c]
        /\ sent[c] = 1
        /\ handled[c] = 0
        /\ rx[c] = NoRequest
        /\ err[c] = "parse"
        /\ Len(wrote[c]) = 1 /\ wrote[c][1].kind = "bad"

\* The requests of two header lines whose keys differ at most in case.
SameKeyTexts(k1, v1, k2, v2) ==
    {RequestText("GET / HTTP/1.0", <<k1 \o ":" \o v1, k2 \o ":" \o v2>>)}

\* C15: of two header lines whose keys differ only in letter case, the
\* header mapping keeps a single entry, under the lower-cased key, with the
\* (trimmed) value of the later line.
C15_LastWins ==
    [][\A c \in Conns : \A k1 \in HeaderKeys, k2 \in HeaderKeys :
          \A v1 \in HeaderValues, v2 \in HeaderValues :
             (ReadDone(c) /\ inp[c] \in SameKeyTexts(k1, v1, k2, v2)
                 /\ ToLower(k1) = ToLower(k2) /\ pc'[c] = "dispatch")
                => /\ DOMAIN req'[c].Headers = {ToLower(k2)}
                   /\ req'[c].Headers[ToLower(k2)] = TrimSpace(v2)
                   /\ (k1 # k2 /\ v1 # v2) => req'[c].Headers[ToLower(k2)] # TrimSpace(v1)]_vars

\* C15 witness: "Host:a" followed by "HOST:c:d" left the single entry
\* host |-> "c:d".
C15_Witness ==
    \E c \in Conns :
        /\ pc[c] = "dispatch"
        /\ inp[c] = ""
        /\ rx[c].Headers = Put(EmptyMap, "host", "c:d")

\* The request's version is neither of the two the server knows.
UnknownDialect(r) == r.Proto \notin {http10, http11}

\* C16: for a parsed request whose version is neither HTTP/1.0 nor
\* HTTP/1.1, whatever its Connection header, the response is given no
\* Connection header, none is on the wire unless the handler set one, and
\* the loop is left after this exchange with the connection closed.
C16_UnknownDialect ==
    [][\A c \in Conns :
          /\ (Parsed(c) /\ UnknownDialect(rx'[c]))
                => /\ "Connection" \notin DOMAIN res'[c].Headers
                   /\ ~keepalive'[c]
          /\ (Wrote(c) /\ UnknownDialect(rx[c]) /\ wrote'[c] # <<>> /\ LeftConnection(c))
                => ~EchoOnWire(c)'
          /\ (Looped(c) /\ UnknownDialect(rx[c]))
                => pc'[c] = "closed" /\ closes'[c] = 1
          /\ (pc[c] = "closed" /\ UnknownDialect(rx[c]))
                => /\ pc'[c] = "closed"
                   /\ handled'[c] = handled[c]
                   /\ wrote'[c] = wrote[c]]_vars

\* C16 witness: an HTTP/2.0 request asking for keep-alive was answered
\* once, without Connection header, and the connection is closed.
C16_Witness ==
    \E c \in Conns :
        /\ pc[c] = "closed"
        /\ rx[c].Proto = "HTTP/2.0"
        /\ AsksKeepAlive(rx[c])
        /\ err[c] = "nil"
        /\ handled[c] = 1
        /\ closes[c] = 1

\* s is the decimal numeral of an integer of at most one digit.
SmallDecimal(s) == \E n \in -9..9 : s \in {Itoa(n), "+" \o Itoa(n), "-" \o Itoa(n)}

\* The value of such a numeral.
SmallValue(s) ==
    CHOOSE n \in -9..9 : s \in {Itoa(n), "+" \o Itoa(n)} \/ (n <= 0 /\ s = "-" \o Itoa(-n))

\* C17: a request whose content-length header is not the numeral of an
\* integer fails the parse: the 400 reply is attempted, no handler is
\* called and the connection is closed; a request without the header is
\* parsed with body length 0, one with a numeral with that length.
C17_BadLengthFails ==
    [][\A c \in Conns : \A k \in HeaderKeys, v \in HeaderValues :
          (ReadDone(c) /\ inp[c] \in OneHeaderTexts(k, v))
             => IF ToLower(k) # "content-length"
                THEN pc'[c] = "dispatch" /\ req'[c].Body.N = 0
                ELSE IF SmallDecimal(TrimSpace(v))
                THEN pc'[c] = "dispatch" /\ req'[c].Body.N = SmallValue(TrimSpace(v))
                ELSE /\ pc'[c] = "closed"
                     /\ closes'[c] = 1
                     /\ err'[c] = "parse"
                     /\ req'[c] = NoRequest
                     /\ Len(wrote'[c]) = 1
                     /\ wrote'[c][1].bytes = bad
                     /\ handled'[c] = handled[c]
                     /\ ~hrun'[c].called]_vars

\* C17 witness: the request with "Content-Length:c:d" was refused: its
\* header was read, the 400 reply attempted, the connection closed.
C17_Witness ==
    \E c \in Conns :
        /\ pc[c] = "closed"
        /\ err[c] = "parse"
        /\ rx[c].Proto = http10
        /\ rx[c].Headers = Put(EmptyMap, "content-length", "c:d")
        /\ handled[c] = 0
        /\ wrote[c][1].kind = "bad"

\* One of the Write calls recorded in ws failed.
SomeWriteFailed(ws) == \E i \in 1..Len(ws) : ~ws[i].ok

\* C18: a Write of the response that fails, in the header block or in the
\* body, is the last Write of the exchange: nothing is written after it
\* and it is not retried; writeTo reports the error and the loop is left
\* at once with the connection closed, keep-alive or not, without reading
\* further input or calling the handler again.
C18_WriteFailureEndsLoop ==
    [][\A c \in Conns :
          /\ Wrote(c)
                => /\ (err'[c] = "write") <=> SomeWriteFailed(wrote'[c])
                   /\ \A i \in 1..Len(wrote'[c]) :
                         ~wrote'[c][i].ok => i = Len(wrote'[c])
                   /\ Len(wrote'[c]) <= 2
                   /\ (Len(wrote'[c]) = 2)
                         => (wrote'[c][1].kind = "headers" /\ wrote'[c][2].kind = "body")
          /\ (Looped(c) /\ err[c] = "write")
                => /\ pc'[c] = "closed"
                   /\ closes'[c] = 1
                   /\ inp'[c] = inp[c]
                   /\ handled'[c] = handled[c]
          /\ (pc[c] = "closed" /\ err[c] = "write")
                => /\ pc'[c] = "closed"
                   /\ inp'[c] = inp[c]
                   /\ handled'[c] = handled[c]
                   /\ wrote'[c] = wrote[c]]_vars

\* C18 witness: the response to a keep-alive request could not be written;
\* the connection is closed with the next request unread.
C18_Witness ==
    \E c \in Conns :
        /\ pc[c] = "closed"
        /\ err[c] = "write"
        /\ keepalive[c]
        /\ handled[c] = 1
        /\ closes[c] = 1
        /\ inp[c] = "GET / HTTP/1.0\r\n\r\n"

\* C19: whatever the handler reads of the body of a request that declared
\* Content-Length n, the stream loses at most max(n, 0) bytes, all from its
\* front and all during the handler call; what the reader may still give
\* is the rest of n; the bytes from max(n, 0) on, the next request's, are
\* still in the stream when the handler returns.
C19_BodyReaderBounded ==
    [][\A c \in Conns :
          /\ Dispatched(c)
                => LET n    == rx[c].Body.N
                       used == Len(inp[c]) - Len(inp'[c])
                   IN  /\ 0 <= used /\ used <= Max(n, 0)
                       /\ inp'[c] = Drop(inp[c], used)
                       /\ hrun'[c].body = Take(inp[c], used)
                       /\ req'[c].Body.N = n - used
                       /\ HasSuffix(inp'[c], Drop(inp[c], Max(n, 0)))
          /\ (pc[c] \in {"write", "written"}) => inp'[c] = inp[c]]_vars

\* C19 witness: the handler read the two body bytes of the request and
\* could read no more; the next request is in the stream untouched.
C19_Witness ==
    \E c \in Conns :
        /\ pc[c] = "write"
        /\ rx[c].Body.N = 2
        /\ req[c].Body.N = 0
        /\ hrun[c].body = "ab"
        /\ inp[c] = "GET / HTTP/1.0\r\n\r\n"

\* The request as it arrived asks an HTTP/1.0 server to keep the connection.
KeepAliveAsReceived(r) == r.Proto = http10 /\ AsksKeepAlive(r)

\* C20: the keep-alive decision is taken from the request as it arrived,
\* before the handler runs; the handler's changes to the response (a
\* Connection header set or removed, another known status) and to the
\* request's header map leave it as it is, and after a write without
\* error the loop goes on or is left by that decision alone.
C20_DecisionBeforeHandler ==
    [][\A c \in Conns :
          /\ Dispatched(c)
                => /\ keepalive[c] <=> KeepAliveAsReceived(rx[c])
                   /\ keepalive'[c] = keepalive[c]
                   /\ rx'[c] = rx[c]
          /\ Wrote(c) => keepalive'[c] = keepalive[c]
          /\ (Looped(c) /\ err[c] = "nil")
                => /\ pc'[c] = (IF KeepAliveAsReceived(rx[c]) THEN "await" ELSE "closed")
                   /\ closes'[c] = (IF KeepAliveAsReceived(rx[c]) THEN 0 ELSE 1)]_vars

\* C20 witness: the handler put Connection: close into the response to a
\* keep-alive request, and into the request's own headers; the response is
\* on the wire with that header and the loop is about to go on.
C20_Witness ==
    \E c \in Conns :
        /\ pc[c] = "written"
        /\ err[c] = "nil"
        /\ KeepAliveAsReceived(rx[c])
        /\ keepalive[c]
        /\ hrun[c].h = hClose
        /\ Get(req[c].Headers, "connection") = "close"
        /\ Contains(wrote[c][1].bytes, "\r\nConnection: close\r\n")
        /\ wrote[c][1].ok

=============================================================================
